---- MODULE Spec2Model ----
(***************************************************************************)
(* A model of svgdom's attribute and link machinery:                       *)
(*   - Node::set_attribute_checked / set_simple_attribute /                *)
(*     set_link_attribute / remove_attribute / set_id and the read         *)
(*     projections linked_nodes / is_used / uses_count (src/dom/node.rs);  *)
(*   - Attribute::new / default / check_is_default and the attribute       *)
(*     writer write_buf_opt / write_quote / write_escaped                  *)
(*     (src/attribute/attribute.rs).                                       *)
(* Strings that are inspected character by character are sequences of      *)
(* Unicode code points; byte buffers are sequences of byte values.         *)
(***************************************************************************)
EXTENDS Integers, Sequences, FiniteSets, TLC

(***************************************************************************)
(* Bounds of the model.                                                    *)
(***************************************************************************)
\* The number of API calls made on the document in one behaviour.
MaxCalls == 3

(***************************************************************************)
(* The document: three element nodes made by Document::create_element.     *)
(***************************************************************************)
Nodes == {"n1", "n2", "n3"}
NoNode == "none"

\* The id strings a caller gives to set_id; "" is "no id".
Ids == {"", "a", "b"}

(***************************************************************************)
(* Qualified names (QName<AttributeId>): an enumerated identifier or an    *)
(* owned string, always with a prefix.                                     *)
(***************************************************************************)
QNameId(prefix, id) == [kind |-> "Id", prefix |-> prefix, local |-> id]
QNameName(prefix, name) == [kind |-> "Name", prefix |-> prefix, local |-> name]

\* QName::has_id(prefix, id)
QName_has_id(name, prefix, id) ==
    /\ name.kind = "Id"
    /\ name.prefix = prefix
    /\ name.local = id

\* From<AttributeId> for AttributeQNameRef: an identifier alone has the
\* empty prefix.
QNameRef_from_id(id) == QNameId("", id)

XlinkHref == QNameId("xlink", "href")
Fill == QNameId("", "fill")

\* The attribute names callers use on the document's nodes.
AttrNames == {XlinkHref, Fill}

(***************************************************************************)
(* Attribute values.  Every value is a record of the same shape; the       *)
(* fields a variant does not use hold a fixed filler.                      *)
(***************************************************************************)
Value(kind, node, num, str) ==
    [kind |-> kind, node |-> node, num |-> num, str |-> str]

Number(n) == Value("Number", NoNode, n, <<>>)
String(s) == Value("String", NoNode, 0, s)
Link(node) == Value("Link", node, 0, <<>>)
FuncLink(node) == Value("FuncLink", node, 0, <<>>)

IsLinkValue(v) == v.kind \in {"Link", "FuncLink"}

\* The non-link values callers store on the document's nodes.
SimpleValues == {Number(1)}

(***************************************************************************)
(* Attribute: name, value, visible.                                        *)
(***************************************************************************)
\* Mutant: the attribute is built hidden.
Attribute_newMutHidden(name, value) ==
    [name |-> name, value |-> value, visible |-> FALSE]

\* Attribute::new
Attribute_new(name, value) ==
    [name |-> name, value |-> value, visible |-> TRUE]

\* Attribute::is_link / is_func_link (impl_is_type!)
Attribute_is_link(attr) == attr.value.kind = "Link"
Attribute_is_func_link(attr) == attr.value.kind = "FuncLink"

\* impl From<(N, V)> for Attribute
Attribute_from_value(name, value) == Attribute_new(name, value)

\* impl From<(N, Node)> for Attribute
Attribute_from_node(name, node) ==
    IF QName_has_id(name, "xlink", "href")
    THEN Attribute_new(name, Link(node))
    ELSE Attribute_new(name, FuncLink(node))

(***************************************************************************)
(* Default values, Attribute::default and Attribute::check_is_default.     *)
(***************************************************************************)
\* Option<T>
None == <<>>
Some(v) == <<v>>

Color(rgb) == Value("Color", NoNode, rgb, <<>>)
Length(n) == Value("Length", NoNode, n, <<>>)
PredefValue(v) == Value("PredefValue", NoNode, 0, v)

\* The attribute identifiers (AttributeId) used with free-standing
\* attributes.
AttributeIds == {"fill", "stroke", "opacity", "stroke-width", "unicode", "x"}

\* AttributeValue::default_value: the defaults of the SVG presentation
\* attributes; geometry and text attributes have none.
AttributeValue_default_value(aid) ==
    CASE aid = "fill" -> Some(Color(0))
      [] aid = "stroke" -> Some(PredefValue("none"))
      [] aid = "opacity" -> Some(Number(1))
      [] aid = "stroke-width" -> Some(Length(1))
      [] OTHER -> None

\* Mutant: the name is built as a custom string name.
Attribute_defaultMutStringName(aid) ==
    LET d == AttributeValue_default_value(aid) IN
    IF d # None
    THEN Some(Attribute_new(QNameName("", aid), d[1]))
    ELSE None

\* Attribute::default
Attribute_default(aid) ==
    LET d == AttributeValue_default_value(aid) IN
    IF d # None
    THEN Some(Attribute_new(QNameRef_from_id(aid), d[1]))
    ELSE None

\* Attribute::check_is_default
Attribute_check_is_default(a) ==
    IF a.name.kind = "Id"
    THEN LET d == AttributeValue_default_value(a.name.local) IN
         IF d # None THEN a.value = d[1] ELSE FALSE
    ELSE FALSE

(***************************************************************************)
(* The attribute writer.                                                   *)
(***************************************************************************)
\* str::as_bytes of one character: its UTF-8 encoding.
Utf8Char(c) ==
    IF c < 128 THEN <<c>>
    ELSE IF c < 2048 THEN <<192 + (c \div 64), 128 + (c % 64)>>
    ELSE <<224 + (c \div 4096), 128 + ((c \div 64) % 64), 128 + (c % 64)>>

RECURSIVE Utf8(_)
Utf8(s) == IF Len(s) = 0 THEN <<>> ELSE Utf8Char(Head(s)) \o Utf8(Tail(s))

\* The characters of the names and keywords the writer emits.
Chars(str) ==
    CASE str = "" -> <<>>
      [] str = "xlink" -> <<120, 108, 105, 110, 107>>
      [] str = "href" -> <<104, 114, 101, 102>>
      [] str = "fill" -> <<102, 105, 108, 108>>
      [] str = "stroke" -> <<115, 116, 114, 111, 107, 101>>
      [] str = "opacity" -> <<111, 112, 97, 99, 105, 116, 121>>
      [] str = "stroke-width" ->
            <<115, 116, 114, 111, 107, 101, 45, 119, 105, 100, 116, 104>>
      [] str = "unicode" -> <<117, 110, 105, 99, 111, 100, 101>>
      [] str = "x" -> <<120>>
      [] str = "none" -> <<110, 111, 110, 101>>
      [] str = "a" -> <<97>>
      [] str = "b" -> <<98>>

\* `{:x}`: lowercase hexadecimal without leading zeros.
HexDigit(d) == IF d < 10 THEN 48 + d ELSE 87 + d

RECURSIVE LowerHex(_)
LowerHex(n) ==
    IF n < 16 THEN <<HexDigit(n)>>
    ELSE LowerHex(n \div 16) \o <<HexDigit(n % 16)>>

\* `{}` of an unsigned integer.
RECURSIVE Decimal(_)
Decimal(n) ==
    IF n < 10 THEN <<48 + n>> ELSE Decimal(n \div 10) \o <<48 + (n % 10)>>

\* write_quote
write_quote(use_single_quote, out) ==
    Append(out, IF use_single_quote THEN 39 ELSE 34)

\* str::starts_with("&#")
StartsWithAmpHash(s) == Len(s) >= 2 /\ s[1] = 38 /\ s[2] = 35

\* Mutant: the code point is formatted with `{}` instead of `{:x}`.
RECURSIVE EscapeCharsDecimal(_, _)
EscapeCharsDecimal(s, out) ==
    IF Len(s) = 0 THEN out
    ELSE EscapeCharsDecimal(Tail(s),
                            (out \o <<38, 35, 120>> \o Decimal(Head(s)))
                                \o <<59>>)

write_escapedMutDecimal(unicode, out) ==
    IF StartsWithAmpHash(unicode)
    THEN out \o Utf8(unicode)
    ELSE EscapeCharsDecimal(unicode, out)

\* write_escaped
RECURSIVE EscapeChars(_, _)
EscapeChars(s, out) ==
    IF Len(s) = 0 THEN out
    ELSE EscapeChars(Tail(s),
                     (out \o <<38, 35, 120>> \o LowerHex(Head(s))) \o <<59>>)

write_escaped(unicode, out) ==
    IF StartsWithAmpHash(unicode)
    THEN out \o Utf8(unicode)
    ELSE EscapeChars(unicode, out)

\* AttributeValue::write_buf_opt, for the value kinds of this model.
AttributeValue_write_buf_opt(v, ids, out) ==
    CASE v.kind = "String" -> out \o Utf8(v.str)
      [] v.kind = "Number" -> out \o Decimal(v.num)
      [] v.kind = "Length" -> out \o Decimal(v.num)
      [] v.kind = "Color" ->
            out \o <<35>> \o LowerHex(v.num) \o LowerHex(v.num)
                \o LowerHex(v.num)
      [] v.kind = "PredefValue" -> out \o Chars(v.str)
      [] v.kind = "Link" -> out \o <<35>> \o Chars(ids[v.node])
      [] v.kind = "FuncLink" ->
            out \o <<117, 114, 108, 40, 35>> \o Chars(ids[v.node]) \o <<41>>

\* impl WriteBuffer for Attribute: write_buf_opt
Attribute_write_buf_opt(a, use_single_quote, ids, out) ==
    LET b1 == IF a.name.prefix # ""
              THEN (out \o Chars(a.name.prefix)) \o <<58>>
              ELSE out
        b2 == (b1 \o Chars(a.name.local)) \o <<61>>
        b3 == write_quote(use_single_quote, b2)
        b4 == IF QName_has_id(a.name, "", "unicode")
              THEN IF a.value.kind = "String"
                   THEN write_escaped(a.value.str, b3)
                   ELSE b3
              ELSE AttributeValue_write_buf_opt(a.value, ids, b3)
    IN  write_quote(use_single_quote, b4)

(***************************************************************************)
(* Attributes: the ordered collection of a node's attributes.              *)
(***************************************************************************)
\* Iterator::position: the first index whose element satisfies the test,
\* 0 for None.
PositionOfName(attrs, name) ==
    IF \E i \in 1..Len(attrs) : attrs[i].name = name
    THEN CHOOSE i \in 1..Len(attrs) :
            /\ attrs[i].name = name
            /\ \A j \in 1..(i - 1) : attrs[j].name # name
    ELSE 0

PositionOfNode(list, node) ==
    IF \E i \in 1..Len(list) : list[i] = node
    THEN CHOOSE i \in 1..Len(list) :
            /\ list[i] = node
            /\ \A j \in 1..(i - 1) : list[j] # node
    ELSE 0

\* Vec::remove(index)
VecRemove(s, index) ==
    SubSeq(s, 1, index - 1) \o SubSeq(s, index + 1, Len(s))

\* Attributes::contains
Attributes_contains(attrs, name) == PositionOfName(attrs, name) # 0

\* Attributes::get_value; only used when the name is present.
Attributes_get_value(attrs, name) == attrs[PositionOfName(attrs, name)].value

\* Attributes::insert_impl: replace the attribute of that name where it
\* stands, append when there is none.
Attributes_insert_impl(attrs, attr) ==
    LET idx == PositionOfName(attrs, attr.name) IN
    IF idx # 0 THEN [attrs EXCEPT ![idx] = attr] ELSE Append(attrs, attr)

\* Attributes::insert
Attributes_insert(attrs, attr) == Attributes_insert_impl(attrs, attr)

\* Attributes::remove_impl
Attributes_remove_impl(attrs, name) ==
    LET idx == PositionOfName(attrs, name) IN
    IF idx # 0 THEN VecRemove(attrs, idx) ELSE attrs

(***************************************************************************)
(* State.                                                                  *)
(***************************************************************************)
VARIABLES
    id,            \* NodeData::id of every node
    attributes,    \* NodeData::attributes of every node
    linked_nodes,  \* NodeData::linked_nodes of every node
    attached,      \* the nodes that are in the document tree
    last,          \* the last call made and what it returned
    calls,         \* the number of calls made
    attr,          \* a free-standing Option<Attribute>: <<a>> or <<>>
    origin,        \* the call that made attr
    is_default,    \* what check_is_default returned for attr
    opt,           \* WriteOptions::use_single_quote of the last write
    buf,           \* the writer's output buffer
    source,        \* the markup handed to Document::from_str
    doc,           \* the parsed document, in document order
    written,       \* what Document::to_string wrote for doc
    previous,      \* the written form that was parsed again: <<w>> or <<>>
    pc             \* how far the parse-and-write run has come

domVars == <<id, attributes, linked_nodes, attached, last, calls>>
attrVars == <<attr, origin, is_default, opt, buf>>
textVars == <<source, doc, written, previous, pc>>
vars == <<id, attributes, linked_nodes, attached, last, calls,
          attr, origin, is_default, opt, buf,
          source, doc, written, previous, pc>>

NoValue == Value("None", NoNode, 0, <<>>)
NoName == QNameName("", "")

\* The payloads that the node operations read and write.
Heap == [attributes |-> attributes, linked_nodes |-> linked_nodes,
         panicked |-> FALSE]

(***************************************************************************)
(* Node operations, as functions from heap to heap.                        *)
(***************************************************************************)
\* Node::linked_nodes / is_used / uses_count
Node_linked_nodes(h, self) == h.linked_nodes[self]
Node_is_used(h, self) == Len(h.linked_nodes[self]) # 0
Node_uses_count(h, self) == Len(h.linked_nodes[self])

\* Node::has_attribute
Node_has_attribute(h, self, name) ==
    Attributes_contains(h.attributes[self], name)

\* Mutant: the attribute is dropped without unlinking it.
Node_remove_attributeMutNoUnlink(h, self, name) ==
    IF ~Node_has_attribute(h, self, name)
    THEN h
    ELSE [h EXCEPT !.attributes[self] = Attributes_remove_impl(@, name)]

\* Mutant: every entry of the node in the target's linked_nodes is erased.
Node_remove_attributeMutEraseAll(h, self, name) ==
    IF ~Node_has_attribute(h, self, name)
    THEN h
    ELSE
        LET value == Attributes_get_value(h.attributes[self], name) IN
        IF IsLinkValue(value)
        THEN
            LET node == value.node
                index == PositionOfNode(h.linked_nodes[node], self)
            IN  IF index = 0
                THEN [h EXCEPT !.panicked = TRUE]
                ELSE [h EXCEPT
                        !.linked_nodes[node] =
                            SelectSeq(@, LAMBDA x : x # self),
                        !.attributes[self] = Attributes_remove_impl(@, name)]
        ELSE [h EXCEPT !.attributes[self] = Attributes_remove_impl(@, name)]

\* Node::remove_attribute.  The unwrap of a failed position lookup panics
\* and leaves the heap as it was at that point.
Node_remove_attribute(h, self, name) ==
    IF ~Node_has_attribute(h, self, name)
    THEN h
    ELSE
        LET value == Attributes_get_value(h.attributes[self], name) IN
        IF IsLinkValue(value)
        THEN
            LET node == value.node
                index == PositionOfNode(h.linked_nodes[node], self)
            IN  IF index = 0
                THEN [h EXCEPT !.panicked = TRUE]
                ELSE [h EXCEPT
                        !.linked_nodes[node] = VecRemove(@, index),
                        !.attributes[self] = Attributes_remove_impl(@, name)]
        ELSE [h EXCEPT !.attributes[self] = Attributes_remove_impl(@, name)]

\* Mutant: the existing attribute is not removed first.
Node_set_simple_attributeMutNoRemove(h, self, a) ==
    [h EXCEPT !.attributes[self] = Attributes_insert(@, a)]

\* Node::set_simple_attribute
Node_set_simple_attribute(h, self, a) ==
    LET h1 == Node_remove_attribute(h, self, a.name) IN
    IF h1.panicked
    THEN h1
    ELSE [h1 EXCEPT !.attributes[self] = Attributes_insert(@, a)]

\* Mutant: the existing attribute is removed before the checks.
Node_set_link_attributeMutEarlyRemove(h, ids, self, name, node) ==
    LET h1 == Node_remove_attribute(h, self, name) IN
    IF ids[node] = ""
    THEN [heap |-> h1, result |-> "ElementMustHaveAnId"]
    ELSE IF ids[self] = ids[node]
    THEN [heap |-> h1, result |-> "ElementCrosslink"]
    ELSE IF \E i \in 1..Len(h.linked_nodes[self]) :
                h.linked_nodes[self][i] = node
    THEN [heap |-> h1, result |-> "ElementCrosslink"]
    ELSE
        IF h1.panicked
        THEN [heap |-> h1, result |-> "panic"]
        ELSE
            LET a == IF QName_has_id(name, "xlink", "href")
                     THEN Attribute_new(name, Link(node))
                     ELSE Attribute_new(name, FuncLink(node))
                h2 == [h1 EXCEPT
                         !.attributes[self] = Attributes_insert_impl(@, a)]
            IN  [heap |-> [h2 EXCEPT !.linked_nodes[node] = Append(@, self)],
                 result |-> "Ok"]

\* Mutant: the "check for recursion" is missing.
Node_set_link_attributeMutNoSelfCheck(h, ids, self, name, node) ==
    IF ids[node] = ""
    THEN [heap |-> h, result |-> "ElementMustHaveAnId"]
    ELSE IF \E i \in 1..Len(h.linked_nodes[self]) :
                h.linked_nodes[self][i] = node
    THEN [heap |-> h, result |-> "ElementCrosslink"]
    ELSE
        LET h1 == Node_remove_attribute(h, self, name) IN
        IF h1.panicked
        THEN [heap |-> h1, result |-> "panic"]
        ELSE
            LET a == IF QName_has_id(name, "xlink", "href")
                     THEN Attribute_new(name, Link(node))
                     ELSE Attribute_new(name, FuncLink(node))
                h2 == [h1 EXCEPT
                         !.attributes[self] = Attributes_insert_impl(@, a)]
            IN  [heap |-> [h2 EXCEPT !.linked_nodes[node] = Append(@, self)],
                 result |-> "Ok"]

\* Mutant: the "check for recursion 2" is missing.
Node_set_link_attributeMutNoBackCheck(h, ids, self, name, node) ==
    IF ids[node] = ""
    THEN [heap |-> h, result |-> "ElementMustHaveAnId"]
    ELSE IF ids[self] = ids[node]
    THEN [heap |-> h, result |-> "ElementCrosslink"]
    ELSE
        LET h1 == Node_remove_attribute(h, self, name) IN
        IF h1.panicked
        THEN [heap |-> h1, result |-> "panic"]
        ELSE
            LET a == IF QName_has_id(name, "xlink", "href")
                     THEN Attribute_new(name, Link(node))
                     ELSE Attribute_new(name, FuncLink(node))
                h2 == [h1 EXCEPT
                         !.attributes[self] = Attributes_insert_impl(@, a)]
            IN  [heap |-> [h2 EXCEPT !.linked_nodes[node] = Append(@, self)],
                 result |-> "Ok"]

\* Mutant: the node is not pushed to the target's linked_nodes.
Node_set_link_attributeMutNoPush(h, ids, self, name, node) ==
    IF ids[node] = ""
    THEN [heap |-> h, result |-> "ElementMustHaveAnId"]
    ELSE IF ids[self] = ids[node]
    THEN [heap |-> h, result |-> "ElementCrosslink"]
    ELSE IF \E i \in 1..Len(h.linked_nodes[self]) :
                h.linked_nodes[self][i] = node
    THEN [heap |-> h, result |-> "ElementCrosslink"]
    ELSE
        LET h1 == Node_remove_attribute(h, self, name) IN
        IF h1.panicked
        THEN [heap |-> h1, result |-> "panic"]
        ELSE
            LET a == IF QName_has_id(name, "xlink", "href")
                     THEN Attribute_new(name, Link(node))
                     ELSE Attribute_new(name, FuncLink(node))
                h2 == [h1 EXCEPT
                         !.attributes[self] = Attributes_insert_impl(@, a)]
            IN  [heap |-> h2, result |-> "Ok"]

\* Mutant: every reference is stored as FuncLink.
Node_set_link_attributeMutAlwaysFuncLink(h, ids, self, name, node) ==
    IF ids[node] = ""
    THEN [heap |-> h, result |-> "ElementMustHaveAnId"]
    ELSE IF ids[self] = ids[node]
    THEN [heap |-> h, result |-> "ElementCrosslink"]
    ELSE IF \E i \in 1..Len(h.linked_nodes[self]) :
                h.linked_nodes[self][i] = node
    THEN [heap |-> h, result |-> "ElementCrosslink"]
    ELSE
        LET h1 == Node_remove_attribute(h, self, name) IN
        IF h1.panicked
        THEN [heap |-> h1, result |-> "panic"]
        ELSE
            LET a == Attribute_new(name, FuncLink(node))
                h2 == [h1 EXCEPT
                         !.attributes[self] = Attributes_insert_impl(@, a)]
            IN  [heap |-> [h2 EXCEPT !.linked_nodes[node] = Append(@, self)],
                 result |-> "Ok"]

\* Mutant: the attribute held under the name is not removed first.
Node_set_link_attributeMutNoRemove(h, ids, self, name, node) ==
    IF ids[node] = ""
    THEN [heap |-> h, result |-> "ElementMustHaveAnId"]
    ELSE IF ids[self] = ids[node]
    THEN [heap |-> h, result |-> "ElementCrosslink"]
    ELSE IF \E i \in 1..Len(h.linked_nodes[self]) :
                h.linked_nodes[self][i] = node
    THEN [heap |-> h, result |-> "ElementCrosslink"]
    ELSE
        LET a == IF QName_has_id(name, "xlink", "href")
                 THEN Attribute_new(name, Link(node))
                 ELSE Attribute_new(name, FuncLink(node))
            h2 == [h EXCEPT
                     !.attributes[self] = Attributes_insert_impl(@, a)]
        IN  [heap |-> [h2 EXCEPT !.linked_nodes[node] = Append(@, self)],
             result |-> "Ok"]

\* Mutant: the self-link check compares the nodes, not their ids.
Node_set_link_attributeMutIdentityCheck(h, ids, self, name, node) ==
    IF ids[node] = ""
    THEN [heap |-> h, result |-> "ElementMustHaveAnId"]
    ELSE IF self = node
    THEN [heap |-> h, result |-> "ElementCrosslink"]
    ELSE IF \E i \in 1..Len(h.linked_nodes[self]) :
                h.linked_nodes[self][i] = node
    THEN [heap |-> h, result |-> "ElementCrosslink"]
    ELSE
        LET h1 == Node_remove_attribute(h, self, name) IN
        IF h1.panicked
        THEN [heap |-> h1, result |-> "panic"]
        ELSE
            LET a == IF QName_has_id(name, "xlink", "href")
                     THEN Attribute_new(name, Link(node))
                     ELSE Attribute_new(name, FuncLink(node))
                h2 == [h1 EXCEPT
                         !.attributes[self] = Attributes_insert_impl(@, a)]
            IN  [heap |-> [h2 EXCEPT !.linked_nodes[node] = Append(@, self)],
                 result |-> "Ok"]

\* Node::set_link_attribute: the heap after the call and the Result.
Node_set_link_attribute(h, ids, self, name, node) ==
    IF ids[node] = ""
    THEN [heap |-> h, result |-> "ElementMustHaveAnId"]
    ELSE IF ids[self] = ids[node]
    THEN [heap |-> h, result |-> "ElementCrosslink"]
    ELSE IF \E i \in 1..Len(h.linked_nodes[self]) :
                h.linked_nodes[self][i] = node
    THEN [heap |-> h, result |-> "ElementCrosslink"]
    ELSE
        LET h1 == Node_remove_attribute(h, self, name) IN
        IF h1.panicked
        THEN [heap |-> h1, result |-> "panic"]
        ELSE
            LET a == IF QName_has_id(name, "xlink", "href")
                     THEN Attribute_new(name, Link(node))
                     ELSE Attribute_new(name, FuncLink(node))
                h2 == [h1 EXCEPT
                         !.attributes[self] = Attributes_insert_impl(@, a)]
            IN  [heap |-> [h2 EXCEPT !.linked_nodes[node] = Append(@, self)],
                 result |-> "Ok"]

\* Node::set_attribute_checked_impl
Node_set_attribute_checked_impl(h, ids, self, a) ==
    IF IsLinkValue(a.value)
    THEN Node_set_link_attribute(h, ids, self, a.name, a.value.node)
    ELSE
        LET h1 == Node_set_simple_attribute(h, self, a) IN
        [heap |-> h1, result |-> IF h1.panicked THEN "panic" ELSE "Ok"]

\* Result::unwrap of what set_attribute_checked returned: an Err panics.
Unwrap(result) ==
    IF result = "ElementMustHaveAnId" THEN "unwrap(ElementMustHaveAnId)"
    ELSE IF result = "ElementCrosslink" THEN "unwrap(ElementCrosslink)"
    ELSE result

\* Node::set_attribute
Node_set_attribute(h, ids, self, a) ==
    LET r == Node_set_attribute_checked_impl(h, ids, self, a) IN
    [heap |-> r.heap, result |-> Unwrap(r.result)]

\* Node::set_attribute_if_none
Node_set_attribute_if_none(h, ids, self, name, value) ==
    IF ~Node_has_attribute(h, self, name)
    THEN Node_set_attribute(h, ids, self, Attribute_new(name, value))
    ELSE [heap |-> h, result |-> "Ok"]

(***************************************************************************)
(* Document::remove_node: unlink the node on both sides, then detach it.   *)
(***************************************************************************)
\* The first attribute of `from` that satisfies being a link (to `to`, or
\* to any node when `to` is NoNode); 0 when there is none.
PositionOfLinkTo(attrs, to) ==
    LET hit(i) == /\ IsLinkValue(attrs[i].value)
                  /\ (to = NoNode \/ attrs[i].value.node = to)
    IN  IF \E i \in 1..Len(attrs) : hit(i)
        THEN CHOOSE i \in 1..Len(attrs) :
                hit(i) /\ \A j \in 1..(i - 1) : ~hit(j)
        ELSE 0

\* Remove every attribute of `from` that links to `to` (to any node when
\* `to` is NoNode), through Node::remove_attribute.
RECURSIVE RemoveLinkAttributes(_, _, _)
RemoveLinkAttributes(h, from, to) ==
    LET i == PositionOfLinkTo(h.attributes[from], to) IN
    IF h.panicked \/ i = 0
    THEN h
    ELSE RemoveLinkAttributes(
            Node_remove_attribute(h, from, h.attributes[from][i].name),
            from, to)

\* For every node of the list, remove its attributes that link to `to`.
RECURSIVE RemoveReferrers(_, _, _)
RemoveReferrers(h, list, to) ==
    IF Len(list) = 0
    THEN h
    ELSE RemoveReferrers(RemoveLinkAttributes(h, Head(list), to),
                         Tail(list), to)

Document_remove_node(h, node) ==
    LET h1 == RemoveLinkAttributes(h, node, NoNode) IN
    RemoveReferrers(h1, h1.linked_nodes[node], node)

(***************************************************************************)
(* The calls a program makes on the document.                              *)
(***************************************************************************)
\* What a caller can pass as `v: Into<Attribute>`: a (name, value) pair, a
\* (name, node) pair, or an Attribute it built itself and hid, whose link
\* variant need not be the one the pair conversion picks.
OtherLink(a) ==
    [a EXCEPT !.value.kind = IF @ = "Link" THEN "FuncLink" ELSE "Link",
              !.visible = FALSE]

Candidates(name) ==
    {Attribute_from_value(name, v) : v \in SimpleValues}
        \cup {[Attribute_from_value(name, v) EXCEPT !.visible = FALSE] :
                v \in SimpleValues}
        \cup {Attribute_from_node(name, n) : n \in Nodes}
        \cup {OtherLink(Attribute_from_node(name, n)) : n \in Nodes}

\* The record of a call: its arguments, the value the node held under the
\* name before the call (NoValue when it held none), and what it returned.
Call(op, node, name, value, visible, old, result) ==
    [op |-> op, node |-> node, name |-> name, value |-> value,
     visible |-> visible, old |-> old, result |-> result]

OldValue(self, name) ==
    IF Attributes_contains(attributes[self], name)
    THEN Attributes_get_value(attributes[self], name)
    ELSE NoValue

\* The first link value among the node's attributes, NoValue without one.
FirstLink(self) ==
    LET i == PositionOfLinkTo(attributes[self], NoNode) IN
    IF i = 0 THEN NoValue ELSE attributes[self][i].value

\* What a call that panicked is recorded to have returned.
Panics == {"panic", "unwrap(ElementMustHaveAnId)", "unwrap(ElementCrosslink)"}

CanCall == calls < MaxCalls /\ last.result \notin Panics

SetAttributeChecked(self, a) ==
    /\ CanCall
    /\ LET r == Node_set_attribute_checked_impl(Heap, id, self, a) IN
        /\ attributes' = r.heap.attributes
        /\ linked_nodes' = r.heap.linked_nodes
        /\ last' = Call("set_attribute_checked", self, a.name, a.value,
                        a.visible, OldValue(self, a.name), r.result)
    /\ calls' = calls + 1
    /\ UNCHANGED <<id, attached, attrVars, textVars>>

RemoveAttribute(self, name) ==
    /\ CanCall
    /\ LET h == Node_remove_attribute(Heap, self, name) IN
        /\ attributes' = h.attributes
        /\ linked_nodes' = h.linked_nodes
        /\ last' = Call("remove_attribute", self, name, NoValue, FALSE,
                        OldValue(self, name),
                        IF h.panicked THEN "panic" ELSE "Ok")
    /\ calls' = calls + 1
    /\ UNCHANGED <<id, attached, attrVars, textVars>>

\* The nodes that set_attribute and set_attribute_if_none are given as
\* link targets: one that starts with an id and one that starts without.
UncheckedTargets == {"n2", "n3"}

\* The attributes passed to set_attribute: a number or a link, built by
\* the conversions of Attribute.
SetCandidates(name) ==
    {Attribute_from_value(name, v) : v \in SimpleValues}
        \cup {Attribute_from_node(name, n) : n \in UncheckedTargets}

\* The values passed to set_attribute_if_none.
IfNoneValues == SimpleValues \cup {Link("n2")}

SetAttribute(self, a) ==
    /\ CanCall
    /\ LET r == Node_set_attribute(Heap, id, self, a) IN
        /\ attributes' = r.heap.attributes
        /\ linked_nodes' = r.heap.linked_nodes
        /\ last' = Call("set_attribute", self, a.name, a.value,
                        a.visible, OldValue(self, a.name), r.result)
    /\ calls' = calls + 1
    /\ UNCHANGED <<id, attached, attrVars, textVars>>

SetAttributeIfNone(self, name, value) ==
    /\ CanCall
    /\ LET r == Node_set_attribute_if_none(Heap, id, self, name, value) IN
        /\ attributes' = r.heap.attributes
        /\ linked_nodes' = r.heap.linked_nodes
        /\ last' = Call("set_attribute_if_none", self, name, value,
                        TRUE, OldValue(self, name), r.result)
    /\ calls' = calls + 1
    /\ UNCHANGED <<id, attached, attrVars, textVars>>

\* Node::set_id
SetId(self, new_id) ==
    /\ CanCall
    /\ id' = [id EXCEPT ![self] = new_id]
    /\ last' = Call("set_id", self, NoName, NoValue, FALSE, NoValue, "Ok")
    /\ calls' = calls + 1
    /\ UNCHANGED <<attributes, linked_nodes, attached, attrVars, textVars>>

RemoveNode(self) ==
    /\ CanCall
    /\ self \in attached
    /\ LET h == Document_remove_node(Heap, self) IN
        /\ attributes' = h.attributes
        /\ linked_nodes' = h.linked_nodes
        /\ last' = Call("remove_node", self, NoName, NoValue, FALSE,
                        FirstLink(self),
                        IF h.panicked THEN "panic" ELSE "Ok")
    /\ attached' = attached \ {self}
    /\ calls' = calls + 1
    /\ UNCHANGED <<id, attrVars, textVars>>

\* A document of three elements made by create_element, two of which were
\* given an id: no attributes, no links.
InitDom ==
    /\ id = [n \in Nodes |->
                IF n = "n1" THEN "a" ELSE IF n = "n2" THEN "b" ELSE ""]
    /\ attributes = [n \in Nodes |-> <<>>]
    /\ linked_nodes = [n \in Nodes |-> <<>>]
    /\ attached = Nodes
    /\ last = Call("new", NoNode, NoName, NoValue, FALSE, NoValue, "Ok")
    /\ calls = 0

InitAttr ==
    /\ attr = None
    /\ origin = [op |-> "none", id |-> ""]
    /\ is_default = "unknown"
    /\ opt = FALSE
    /\ buf = <<>>

InitText ==
    /\ source = <<>>
    /\ doc = <<>>
    /\ written = <<>>
    /\ previous = None
    /\ pc = "none"

Init == InitDom /\ InitAttr /\ InitText

Next ==
    \/ \E self \in Nodes, name \in AttrNames :
        \E a \in Candidates(name) : SetAttributeChecked(self, a)
    \/ \E self \in Nodes, name \in AttrNames :
        \E a \in SetCandidates(name) : SetAttribute(self, a)
    \/ \E self \in Nodes, name \in AttrNames, value \in IfNoneValues :
        SetAttributeIfNone(self, name, value)
    \/ \E self \in Nodes, name \in AttrNames : RemoveAttribute(self, name)
    \/ \E self \in Nodes, new_id \in Ids : SetId(self, new_id)
    \/ \E self \in Nodes : RemoveNode(self)

Spec == Init /\ [][Next]_vars

(***************************************************************************)
(* Free-standing attributes: construction, the default check, the writer.  *)
(***************************************************************************)
\* The longest string value written.
MaxStrLen == 3

\* & # a e-acute
Alphabet == {38, 35, 97, 233}

RECURSIVE StringsUpTo(_)
StringsUpTo(n) ==
    IF n = 0 THEN {<<>>}
    ELSE LET shorter == StringsUpTo(n - 1) IN
         shorter \cup {Append(s, c) : s \in shorter, c \in Alphabet}

FreeNames ==
    {QNameRef_from_id(aid) : aid \in AttributeIds}
        \cup {QNameId("xlink", "unicode"), QNameName("", "unicode"),
              QNameName("", "fill")}

FreeValues ==
    {String(s) : s \in StringsUpTo(MaxStrLen)}
        \cup {Number(1), Number(2), Length(1), Color(0), Color(15),
              PredefValue("none")}

\* One attribute is constructed per behaviour, then checked and written.
AttributeDefault(aid) ==
    /\ origin.op = "none"
    /\ attr' = Attribute_default(aid)
    /\ origin' = [op |-> "default", id |-> aid]
    /\ is_default' = "unknown"
    /\ buf' = <<>>
    /\ UNCHANGED <<opt, domVars, textVars>>

AttributeNew(name, value) ==
    /\ origin.op = "none"
    /\ attr' = Some(Attribute_new(name, value))
    /\ origin' = [op |-> "new", id |-> ""]
    /\ is_default' = "unknown"
    /\ buf' = <<>>
    /\ UNCHANGED <<opt, domVars, textVars>>

CheckIsDefault ==
    /\ attr # None
    /\ is_default' =
            IF Attribute_check_is_default(attr[1]) THEN "true" ELSE "false"
    /\ UNCHANGED <<attr, origin, opt, buf, domVars, textVars>>

\* to_string / with_write_opt: write into a fresh buffer.
WriteBufOpt(use_single_quote) ==
    /\ attr # None
    /\ opt' = use_single_quote
    /\ buf' = Attribute_write_buf_opt(attr[1], use_single_quote, id, <<>>)
    /\ UNCHANGED <<attr, origin, is_default, domVars, textVars>>

NextAttr ==
    \/ \E aid \in AttributeIds : AttributeDefault(aid)
    \/ \E name \in FreeNames, value \in FreeValues : AttributeNew(name, value)
    \/ CheckIsDefault
    \/ \E q \in BOOLEAN : WriteBufOpt(q)

SpecAttr == Init /\ [][NextAttr]_vars

(***************************************************************************)
(* Text: Document::from_str with its text normalization pass, and the      *)
(* writer.  The parser is not among the sources of this development: it    *)
(* is modelled from section 4.4 of the specification, made precise by the  *)
(* expectations of tests/text.rs.                                          *)
(***************************************************************************)
\* The number of characters of text in a parsed document.
MaxTextLen == 4

\* space, newline, a
TextAlphabet == {32, 10, 97}

\* Tab, newline and space.  Line ends reach the pass as one newline
\* (text_6: CR LF CR LF is written as two spaces).
IsWhitespace(c) == c \in {9, 10, 32}

\* Markup events: a start tag, an end tag, an empty-element tag, and one
\* character of text.
StartTag(name, space) == [tag |-> "start", name |-> name, space |-> space, c |-> 0]
EndTag(name) == [tag |-> "end", name |-> name, space |-> "none", c |-> 0]
EmptyTag(name, space) == [tag |-> "empty", name |-> name, space |-> space, c |-> 0]
Char(c) == [tag |-> "char", name |-> "", space |-> "none", c |-> c]

RECURSIVE Chars_of(_)
Chars_of(s) == IF s = <<>> THEN <<>> ELSE <<Char(Head(s))>> \o Chars_of(Tail(s))

\* Nodes of the tree in document order; depth is the number of ancestors.
\* space is the value of the element's xml:space attribute, "none" when
\* the element has no such attribute.
ElementNode(depth, name, space) ==
    [type |-> "Element", depth |-> depth, name |-> name, space |-> space,
     text |-> <<>>]
TextNode(depth, text) ==
    [type |-> "Text", depth |-> depth, name |-> "", space |-> "none",
     text |-> text]

\* The tree builder: one node per start or empty-element tag, one text node
\* per maximal run of characters.
RECURSIVE BuildTree(_, _, _, _)
BuildTree(tokens, i, depth, nodes) ==
    IF i > Len(tokens) THEN nodes
    ELSE LET t == tokens[i] IN
         CASE t.tag = "start" ->
                BuildTree(tokens, i + 1, depth + 1,
                          Append(nodes, ElementNode(depth, t.name, t.space)))
           [] t.tag = "empty" ->
                BuildTree(tokens, i + 1, depth,
                          Append(nodes, ElementNode(depth, t.name, t.space)))
           [] t.tag = "end" ->
                BuildTree(tokens, i + 1, depth - 1, nodes)
           [] OTHER ->
                IF i > 1 /\ tokens[i - 1].tag = "char"
                THEN BuildTree(tokens, i + 1, depth,
                        [nodes EXCEPT ![Len(nodes)].text = Append(@, t.c)])
                ELSE BuildTree(tokens, i + 1, depth,
                        Append(nodes, TextNode(depth, <<t.c>>)))

\* Node::has_children in document order.
HasChildren(tree, i) == i < Len(tree) /\ tree[i + 1].depth > tree[i].depth

\* The end tags of the elements that are open at depth `depth` and beyond.
RECURSIVE CloseTo(_, _)
CloseTo(open, depth) ==
    IF Len(open) <= depth THEN <<>>
    ELSE <<EndTag(open[Len(open)])>>
            \o CloseTo(SubSeq(open, 1, Len(open) - 1), depth)

\* The writer: an element without children is written in self-closing
\* form, text is written as it is stored.
RECURSIVE WriteNodes(_, _, _, _)
WriteNodes(tree, i, open, out) ==
    IF i > Len(tree) THEN out \o CloseTo(open, 0)
    ELSE LET n == tree[i]
             closed == out \o CloseTo(open, n.depth)
             still == SubSeq(open, 1, n.depth)
         IN  IF n.type = "Text"
             THEN WriteNodes(tree, i + 1, still, closed \o Chars_of(n.text))
             ELSE IF HasChildren(tree, i)
             THEN WriteNodes(tree, i + 1, Append(still, n.name),
                             Append(closed, StartTag(n.name, n.space)))
             ELSE WriteNodes(tree, i + 1, still,
                             Append(closed, EmptyTag(n.name, n.space)))

Document_to_string(tree) == WriteNodes(tree, 1, <<>>, <<>>)

\* The element that is the parent of node i, 0 for a root.
Parent(tree, i) ==
    LET above == {j \in 1..(i - 1) : /\ tree[j].type = "Element"
                                     /\ tree[j].depth = tree[i].depth - 1}
    IN  IF above = {} THEN 0
        ELSE CHOOSE j \in above : \A k \in above : k <= j

\* The whitespace mode in effect on element i: its own xml:space attribute
\* when it has one, else the mode of its parent; "default" (collapse) at the
\* root.
\* Mutant: the mode of the parent is not inherited.
get_xmlspaceMutNoInherit(tree, i) ==
    IF i # 0 /\ tree[i].space = "preserve" THEN "preserve" ELSE "default"

RECURSIVE get_xmlspace(_, _)
get_xmlspace(tree, i) ==
    IF i = 0 THEN "default"
    ELSE IF tree[i].space = "preserve" THEN "preserve"
    ELSE IF tree[i].space # "none" THEN "default"
    ELSE get_xmlspace(tree, Parent(tree, i))

\* The text of one node: tab and newline become a space (text_5, text_6),
\* and in collapse mode a space that follows a space is skipped.
RECURSIVE trim_text_from(_, _, _, _, _)
trim_text_from(text, i, prev, xmlspace, s) ==
    IF i > Len(text) THEN s
    ELSE LET c == IF IsWhitespace(text[i]) THEN 32 ELSE text[i] IN
         IF xmlspace = "default" /\ c = 32 /\ c = prev
         THEN trim_text_from(text, i + 1, prev, xmlspace, s)
         ELSE trim_text_from(text, i + 1, c, xmlspace, Append(s, c))

\* Mutant: spaces are collapsed whatever the mode.
trim_textMutCollapse(text, xmlspace) ==
    trim_text_from(text, 1, 0, "default", <<>>)

trim_text(text, xmlspace) == trim_text_from(text, 1, 0, xmlspace, <<>>)

remove_first_space(s) == Tail(s)
remove_last_space(s) == SubSeq(s, 1, Len(s) - 1)
FirstByte(s) == IF s = <<>> THEN 0 ELSE s[1]
LastByte(s) == IF s = <<>> THEN 0 ELSE s[Len(s)]

\* The positions of the text nodes of the tree, in document order.
RECURSIVE TextPositions(_, _)
TextPositions(tree, i) ==
    IF i > Len(tree) THEN <<>>
    ELSE IF tree[i].type = "Text" THEN <<i>> \o TextPositions(tree, i + 1)
    ELSE TextPositions(tree, i + 1)

\* The last text node up to k that is not empty, 0 when there is none.
RECURSIVE LastNonEmpty(_, _)
LastNonEmpty(texts, k) ==
    IF k = 0 THEN 0
    ELSE IF texts[k] # <<>> THEN k
    ELSE LastNonEmpty(texts, k - 1)

\* The text nodes of an element are treated as one text, from the first to
\* the last.  A space at the start of the whole text is removed.  Where a
\* node that ends with a space meets a node that starts with one, one of
\* the two spaces is removed: the one of the deeper node (text_tspan_1,
\* text_tspan_6, text_tspan_9, text_tspan_10), and never one of a node in
\* preserve mode (text_space_preserve_3, text_space_preserve_4).
RECURSIVE JoinTexts(_, _, _, _)
JoinTexts(texts, depths, spaces, k) ==
    IF k > Len(texts) THEN texts
    ELSE
    LET p == LastNonEmpty(texts, k - 1)
        next ==
            IF texts[k] = <<>> THEN texts
            ELSE IF p = 0
            THEN IF spaces[k] = "default" /\ FirstByte(texts[k]) = 32
                 THEN [texts EXCEPT ![k] = remove_first_space(@)]
                 ELSE texts
            ELSE IF LastByte(texts[p]) = 32 /\ FirstByte(texts[k]) = 32
            THEN IF depths[p] < depths[k]
                 THEN IF spaces[k] = "default"
                      THEN [texts EXCEPT ![k] = remove_first_space(@)]
                      ELSE texts
                 ELSE IF spaces[p] = "default" /\ spaces[k] = "default"
                      THEN [texts EXCEPT ![p] = remove_last_space(@)]
                      ELSE IF spaces[p] = "preserve" /\ spaces[k] = "default"
                      THEN [texts EXCEPT ![k] = remove_first_space(@)]
                      ELSE texts
            ELSE texts
    IN  JoinTexts(next, depths, spaces, k + 1)

\* Mutant: the space at the end of the whole text is kept.
TrimEndMutKeep(texts, spaces) == texts

\* Mutant: only the last text node is looked at, also when it is empty.
TrimEndMutLastNode(texts, spaces) ==
    LET p == Len(texts) IN
    IF p # 0 /\ spaces[p] = "default" /\ LastByte(texts[p]) = 32
    THEN [texts EXCEPT ![p] = remove_last_space(@)]
    ELSE texts

\* A space at the end of the whole text is removed.
TrimEnd(texts, spaces) ==
    LET p == LastNonEmpty(texts, Len(texts)) IN
    IF p # 0 /\ spaces[p] = "default" /\ LastByte(texts[p]) = 32
    THEN [texts EXCEPT ![p] = remove_last_space(@)]
    ELSE texts

\* The pass over a parsed tree: every text node is trimmed by its own mode,
\* then the nodes are joined, then a text node left empty is dropped.
prepare_text(tree) ==
    LET pos == TextPositions(tree, 1)
        n == Len(pos)
        spaces == [k \in 1..n |-> get_xmlspace(tree, Parent(tree, pos[k]))]
        depths == [k \in 1..n |-> tree[pos[k]].depth]
        trimmed == [k \in 1..n |-> trim_text(tree[pos[k]].text, spaces[k])]
        joined == TrimEnd(JoinTexts(trimmed, depths, spaces, 1), spaces)
        IndexOf(i) == CHOOSE k \in 1..n : pos[k] = i
        set == [i \in 1..Len(tree) |->
                   IF tree[i].type = "Text"
                   THEN [tree[i] EXCEPT !.text = joined[IndexOf(i)]]
                   ELSE tree[i]]
    IN  SelectSeq(set, LAMBDA x : x.type = "Element" \/ x.text # <<>>)

Document_from_str(tokens) == prepare_text(BuildTree(tokens, 1, 0, <<>>))

RECURSIVE TextsUpTo(_)
TextsUpTo(n) ==
    IF n <= 0 THEN {<<>>}
    ELSE LET shorter == TextsUpTo(n - 1) IN
         shorter \cup {Append(s, c) : s \in shorter, c \in TextAlphabet}

\* <text>t1<tspan>t2</tspan>t3</text>, each element with or without an
\* xml:space attribute.
WithTspan(space0, space1, t1, t2, t3) ==
    <<StartTag("text", space0)>> \o Chars_of(t1)
        \o <<StartTag("tspan", space1)>> \o Chars_of(t2) \o <<EndTag("tspan")>>
        \o Chars_of(t3) \o <<EndTag("text")>>

\* <text>t1</text>
TextOnly(space0, t1) ==
    <<StartTag("text", space0)>> \o Chars_of(t1) \o <<EndTag("text")>>

XmlSpaceAttrs == {"none", "default", "preserve"}

\* Document::from_str of a document read for the first time.
FromStr(markup) ==
    /\ pc = "none"
    /\ source' = markup
    /\ doc' = Document_from_str(markup)
    /\ pc' = "parsed"
    /\ UNCHANGED <<written, previous, domVars, attrVars>>

\* Document::to_string.
WriteDocument ==
    /\ pc = "parsed"
    /\ written' = Document_to_string(doc)
    /\ pc' = "written"
    /\ UNCHANGED <<source, doc, previous, domVars, attrVars>>

\* Document::from_str of what was written.
Resave ==
    /\ pc = "written"
    /\ previous = None
    /\ source' = written
    /\ previous' = Some(written)
    /\ doc' = Document_from_str(written)
    /\ pc' = "parsed"
    /\ UNCHANGED <<written, domVars, attrVars>>

NextText ==
    \/ /\ pc = "none"
       /\ \E space0 \in {"none", "preserve"}, space1 \in XmlSpaceAttrs :
            \E t1 \in TextsUpTo(MaxTextLen) :
              \E t2 \in TextsUpTo(MaxTextLen - Len(t1)) :
                \E t3 \in TextsUpTo(MaxTextLen - Len(t1) - Len(t2)) :
                    FromStr(WithTspan(space0, space1, t1, t2, t3))
    \/ /\ pc = "none"
       /\ \E space0 \in XmlSpaceAttrs, t1 \in TextsUpTo(MaxTextLen) :
            FromStr(TextOnly(space0, t1))
    \/ WriteDocument
    \/ Resave

SpecText == Init /\ [][NextText]_vars

(***************************************************************************)
(* Properties of the link subsystem.                                       *)
(***************************************************************************)
Errors == {"ElementMustHaveAnId", "ElementCrosslink"}

\* Some attribute of node a currently holds Link(b) or FuncLink(b).
HoldsLinkTo(a, b) ==
    \E i \in 1..Len(attributes[a]) :
        /\ IsLinkValue(attributes[a][i].value)
        /\ attributes[a][i].value.node = b

\* Node a appears in b's linked_nodes.
InLinkedNodes(b, a) ==
    \E i \in 1..Len(linked_nodes[b]) : linked_nodes[b][i] = a

\* The number of occurrences of x in a list.
Occurrences(list, x) == Cardinality({i \in 1..Len(list) : list[i] = x})

\* The step is a call of set_attribute_checked.
IsSetCall == calls' = calls + 1 /\ last'.op = "set_attribute_checked"

\* The step is a call of set_attribute_checked on node a with a Link or
\* FuncLink candidate whose target is b.
IsLinkCall(a, b) ==
    /\ IsSetCall
    /\ last'.node = a
    /\ IsLinkValue(last'.value)
    /\ last'.value.node = b

HeapUnchanged == attributes' = attributes /\ linked_nodes' = linked_nodes

\* C1: in every state reached through set_attribute_checked,
\* remove_attribute (and set_id, remove_node), node a appears in b's
\* linked_nodes if and only if some attribute of a holds Link(b) or
\* FuncLink(b); a node that is not used is referenced by no attribute.
C1_LinkInvariant ==
    /\ \A a \in Nodes, b \in Nodes : InLinkedNodes(b, a) <=> HoldsLinkTo(a, b)
    /\ \A b \in Nodes :
        ~Node_is_used(Heap, b) => \A a \in Nodes : ~HoldsLinkTo(a, b)

\* A link attribute was overwritten by a link to another node: the old
\* target lost the back-reference, the new one holds it.
C1_Witness ==
    /\ last.op = "set_attribute_checked"
    /\ last.result = "Ok"
    /\ IsLinkValue(last.value)
    /\ IsLinkValue(last.old)
    /\ last.old.node # last.value.node
    /\ InLinkedNodes(last.value.node, last.node)
    /\ ~InLinkedNodes(last.old.node, last.node)

\* C2: a set_attribute_checked call that returns ElementMustHaveAnId or
\* ElementCrosslink changes neither the attributes nor the linked_nodes of
\* any node.
C2_ErrorChangesNothing ==
    [][(IsSetCall /\ last'.result \in Errors) => HeapUnchanged]_vars

\* A call was rejected although the node held a link under that name.
C2_Witness ==
    /\ last.op = "set_attribute_checked"
    /\ last.result \in Errors
    /\ IsLinkValue(last.old)
    /\ HoldsLinkTo(last.node, last.old.node)

\* C3 as stated: a link whose target is the node itself fails with
\* ElementCrosslink, whether or not the node has an id, and changes nothing.
C3_SelfLinkAlwaysCrosslink ==
    [][\A a \in Nodes :
        IsLinkCall(a, a) =>
            last'.result = "ElementCrosslink" /\ HeapUnchanged]_vars

\* C3 amended: a link whose target is the node itself always fails and
\* changes nothing; the error is ElementCrosslink when the node has a
\* non-empty id and ElementMustHaveAnId when its id is empty.
C3_SelfLinkRejected ==
    [][\A a \in Nodes :
        IsLinkCall(a, a) =>
            /\ last'.result =
                IF id[a] = "" THEN "ElementMustHaveAnId"
                              ELSE "ElementCrosslink"
            /\ HeapUnchanged]_vars

\* A node with an id and a link attribute was asked to link to itself.
C3_Witness ==
    /\ last.op = "set_attribute_checked"
    /\ IsLinkValue(last.value)
    /\ last.value.node = last.node
    /\ id[last.node] # ""
    /\ last.result = "ElementCrosslink"
    /\ \E b \in Nodes : HoldsLinkTo(last.node, b)

\* No two nodes link to each other.
NoMutualLink ==
    \A a \in Nodes, b \in Nodes : ~(HoldsLinkTo(a, b) /\ HoldsLinkTo(b, a))

\* C4 as stated: when b links to a, a link from a to b fails with
\* ElementCrosslink, and no two nodes link to each other.
C4_BackLinkAlwaysCrosslink ==
    /\ [][\A a \in Nodes, b \in Nodes :
            (HoldsLinkTo(b, a) /\ IsLinkCall(a, b)) =>
                last'.result = "ElementCrosslink"]_vars
    /\ []NoMutualLink

\* C4 amended: when b links to a, a link from a to b fails and changes
\* nothing, with ElementMustHaveAnId when b's id is empty and
\* ElementCrosslink otherwise; no two nodes link to each other.
C4_BackLinkRejected ==
    /\ [][\A a \in Nodes, b \in Nodes :
            (HoldsLinkTo(b, a) /\ IsLinkCall(a, b)) =>
                /\ last'.result =
                    IF id[b] = "" THEN "ElementMustHaveAnId"
                                  ELSE "ElementCrosslink"
                /\ HeapUnchanged]_vars
    /\ []NoMutualLink

\* A link from a to b was rejected as a crosslink because b, whose id
\* differs from a's, links to a.
C4_Witness ==
    /\ last.op = "set_attribute_checked"
    /\ IsLinkValue(last.value)
    /\ last.result = "ElementCrosslink"
    /\ id[last.value.node] # id[last.node]
    /\ HoldsLinkTo(last.value.node, last.node)

\* C5: when node a holds a link to b under name n and set_attribute_checked
\* stores a non-link value under n, b's linked_nodes loses exactly one
\* occurrence of a and nothing else, no other node's linked_nodes changes,
\* and a then holds the new value under n.
C5_UnlinkOnOverwrite ==
    [][\A a \in Nodes :
        (/\ IsSetCall
         /\ last'.node = a
         /\ ~IsLinkValue(last'.value)
         /\ IsLinkValue(OldValue(a, last'.name))) =>
            LET b == OldValue(a, last'.name).node IN
            /\ last'.result = "Ok"
            /\ \A x \in Nodes :
                Occurrences(linked_nodes'[b], x) =
                    Occurrences(linked_nodes[b], x) - (IF x = a THEN 1 ELSE 0)
            /\ \A c \in Nodes \ {b} : linked_nodes'[c] = linked_nodes[c]
            /\ Attributes_contains(attributes'[a], last'.name)
            /\ Attributes_get_value(attributes'[a], last'.name) = last'.value
      ]_vars

\* One of two links from a node to the same target was overwritten by a
\* number: one occurrence is left.
C5_Witness ==
    /\ last.op = "set_attribute_checked"
    /\ last.result = "Ok"
    /\ ~IsLinkValue(last.value)
    /\ IsLinkValue(last.old)
    /\ Occurrences(linked_nodes[last.old.node], last.node) = 1

\* C6: a node with an id that nothing references is, after one successful
\* link from another node, used with uses_count 1 and that node first in
\* linked_nodes; when the only referencing node is then removed from the
\* document, or its link attribute is removed, the target is unused with
\* uses_count 0 again.  is_used equals uses_count > 0 throughout.
C6_UsedThenUnused ==
    /\ [][\A a \in Nodes, b \in Nodes :
            (/\ IsLinkCall(a, b)
             /\ last'.result = "Ok"
             /\ ~Node_is_used(Heap, b)
             /\ \A x \in Nodes : ~HoldsLinkTo(x, b)) =>
                /\ id[b] # ""
                /\ Node_is_used(Heap', b)
                /\ Node_uses_count(Heap', b) = 1
                /\ Node_linked_nodes(Heap', b)[1] = a]_vars
    /\ [][\A a \in Nodes, b \in Nodes :
            (/\ calls' = calls + 1
             /\ last'.node = a
             /\ Node_linked_nodes(Heap, b) = <<a>>
             /\ \/ last'.op = "remove_node"
                \/ /\ last'.op = "remove_attribute"
                   /\ IsLinkValue(OldValue(a, last'.name))
                   /\ OldValue(a, last'.name).node = b) =>
                /\ ~Node_is_used(Heap', b)
                /\ Node_uses_count(Heap', b) = 0]_vars
    /\ [](\A b \in Nodes :
            Node_is_used(Heap, b) <=> Node_uses_count(Heap, b) > 0)

\* The only node linking to a target was removed from the document and the
\* target is unused.
C6_Witness ==
    /\ last.op = "remove_node"
    /\ last.result = "Ok"
    /\ IsLinkValue(last.old)
    /\ ~Node_is_used(Heap, last.old.node)
    /\ Node_uses_count(Heap, last.old.node) = 0
    /\ id[last.old.node] # ""

\* C7: the link variant is decided by the name alone.  The attribute built
\* from a (name, node) pair, and every link attribute a node holds, is Link
\* when the name is href with prefix xlink and FuncLink otherwise.
LinkKindOf(name) ==
    IF name = [kind |-> "Id", prefix |-> "xlink", local |-> "href"]
    THEN "Link" ELSE "FuncLink"

C7_LinkKindByName ==
    /\ \A name \in AttrNames \cup FreeNames, n \in Nodes :
        /\ Attribute_from_node(name, n).value.kind = LinkKindOf(name)
        /\ Attribute_from_node(name, n).value.node = n
        /\ Attribute_from_node(name, n).name = name
    /\ \A a \in Nodes : \A i \in 1..Len(attributes[a]) :
        IsLinkValue(attributes[a][i].value) =>
            attributes[a][i].value.kind = LinkKindOf(attributes[a][i].name)
    /\ (/\ last.op = "set_attribute_checked"
        /\ last.result = "Ok"
        /\ IsLinkValue(last.value)) =>
            /\ Attributes_contains(attributes[last.node], last.name)
            /\ Attributes_get_value(attributes[last.node], last.name) =
                Value(LinkKindOf(last.name), last.value.node, 0, <<>>)

\* A candidate of the other link variant was stored under the variant its
\* name decides.
C7_Witness ==
    /\ last.op = "set_attribute_checked"
    /\ last.result = "Ok"
    /\ IsLinkValue(last.value)
    /\ last.value.kind # LinkKindOf(last.name)
    /\ Attributes_get_value(attributes[last.node], last.name).kind =
            LinkKindOf(last.name)

\* C8 as stated: overwriting an attribute through set_attribute_checked
\* leaves it at its position and every other attribute at its own.
C8_OverwriteKeepsPosition ==
    [][\A a \in Nodes :
        (/\ IsSetCall
         /\ last'.node = a
         /\ last'.result = "Ok"
         /\ Attributes_contains(attributes[a], last'.name)) =>
            /\ Len(attributes'[a]) = Len(attributes[a])
            /\ \A i \in 1..Len(attributes[a]) :
                attributes'[a][i].name = attributes[a][i].name]_vars

(***************************************************************************)
(* Properties of free-standing attributes.                                 *)
(***************************************************************************)
\* Reading UTF-8 bytes back as code points; <<-1>> when they are malformed.
RECURSIVE DecodeUtf8(_)
DecodeUtf8(bytes) ==
    IF Len(bytes) = 0 THEN <<>>
    ELSE IF bytes[1] < 128
    THEN <<bytes[1]>> \o DecodeUtf8(Tail(bytes))
    ELSE IF bytes[1] >= 192 /\ bytes[1] < 224 /\ Len(bytes) >= 2
    THEN <<(bytes[1] - 192) * 64 + (bytes[2] - 128)>>
            \o DecodeUtf8(SubSeq(bytes, 3, Len(bytes)))
    ELSE IF bytes[1] >= 224 /\ bytes[1] < 240 /\ Len(bytes) >= 3
    THEN <<(bytes[1] - 224) * 4096 + (bytes[2] - 128) * 64
                + (bytes[3] - 128)>>
            \o DecodeUtf8(SubSeq(bytes, 4, Len(bytes)))
    ELSE <<-1>>

\* The value of a hexadecimal digit, -1 for any other byte.
HexValue(b) ==
    IF b >= 48 /\ b <= 57 THEN b - 48
    ELSE IF b >= 97 /\ b <= 102 THEN b - 87
    ELSE IF b >= 65 /\ b <= 70 THEN b - 55
    ELSE -1

\* The number a run of hexadecimal digits denotes, -1 when it is empty or
\* holds another byte.
RECURSIVE HexNumber(_)
HexNumber(digits) ==
    IF Len(digits) = 0 THEN -1
    ELSE LET d == HexValue(digits[Len(digits)]) IN
         IF d = -1 THEN -1
         ELSE IF Len(digits) = 1 THEN d
         ELSE LET hi == HexNumber(SubSeq(digits, 1, Len(digits) - 1)) IN
              IF hi = -1 THEN -1 ELSE hi * 16 + d

\* Reading a run of numeric character references &#x<hex>; back as code
\* points; <<-1>> when the bytes are anything else.
RECURSIVE ParseCharRefs(_)
ParseCharRefs(bytes) ==
    IF Len(bytes) = 0 THEN <<>>
    ELSE IF /\ Len(bytes) >= 5
            /\ SubSeq(bytes, 1, 3) = <<38, 35, 120>>
            /\ \E k \in 4..Len(bytes) : bytes[k] = 59
    THEN LET semi == CHOOSE k \in 4..Len(bytes) :
                        /\ bytes[k] = 59
                        /\ \A j \in 4..(k - 1) : bytes[j] # 59
             cp == HexNumber(SubSeq(bytes, 4, semi - 1))
             rest == ParseCharRefs(SubSeq(bytes, semi + 1, Len(bytes)))
         IN  IF cp = -1 \/ rest = <<-1>> THEN <<-1>> ELSE <<cp>> \o rest
    ELSE <<-1>>

\* The position of the first `=` of the output, 0 without one.
EqualsSign ==
    IF \E i \in 1..Len(buf) : buf[i] = 61
    THEN CHOOSE i \in 1..Len(buf) :
            buf[i] = 61 /\ \A j \in 1..(i - 1) : buf[j] # 61
    ELSE 0

\* attr is the unicode attribute with the empty prefix and a string value,
\* and it has been written.
UnicodeStringWritten ==
    /\ attr # None
    /\ attr[1].name = [kind |-> "Id", prefix |-> "", local |-> "unicode"]
    /\ attr[1].value.kind = "String"
    /\ Len(buf) # 0

\* C9: the unicode attribute with a string value is written as
\* name = quote value quote, with the same quote character on both sides,
\* single when use_single_quote is set and double otherwise; a value that
\* begins with &# is written unchanged, any other value as one reference
\* &#x<hex code point>; per character, in order.
C9_UnicodeEscaping ==
    UnicodeStringWritten =>
        LET s == attr[1].value.str
            quote == IF opt THEN 39 ELSE 34
            eq == EqualsSign
            body == SubSeq(buf, eq + 2, Len(buf) - 1)
        IN  /\ eq # 0
            /\ Len(buf) >= eq + 2
            /\ buf[eq + 1] = quote
            /\ buf[Len(buf)] = quote
            /\ IF Len(s) >= 2 /\ s[1] = 38 /\ s[2] = 35
               THEN DecodeUtf8(body) = s
               ELSE ParseCharRefs(body) = s

\* A string that does not begin with &# and holds a non-ASCII character
\* was written in single quotes.
C9_Witness ==
    /\ UnicodeStringWritten
    /\ opt
    /\ Len(attr[1].value.str) >= 2
    /\ attr[1].value.str[1] = 38
    /\ \E i \in 1..Len(attr[1].value.str) : attr[1].value.str[i] = 233

\* C10: Attribute::default(id) is, for an identifier with a default value,
\* a visible attribute named id whose check_is_default is true, and nothing
\* for an identifier without one; check_is_default is false for every
\* value under an identifier without a default value and under a custom
\* string name.
C10_DefaultIsDefault ==
    /\ origin.op = "default" =>
        IF AttributeValue_default_value(origin.id) # None
        THEN /\ attr # None
             /\ attr[1].name =
                    [kind |-> "Id", prefix |-> "", local |-> origin.id]
             /\ attr[1].visible
             /\ is_default \in {"unknown", "true"}
        ELSE attr = None
    /\ (/\ attr # None
        /\ \/ attr[1].name.kind = "Name"
           \/ AttributeValue_default_value(attr[1].name.local) = None) =>
            is_default \in {"unknown", "false"}

\* The default attribute of an identifier was built and found default.
C10_Witness ==
    /\ origin.op = "default"
    /\ attr # None
    /\ is_default = "true"

(***************************************************************************)
(* Properties of the text normalization pass.                              *)
(***************************************************************************)
\* The tree as the tokenizer delivered it, before the pass.
SourceTree == BuildTree(source, 1, 0, <<>>)

\* The concatenation of the texts of the nodes, in document order.
RECURSIVE Concat(_, _)
Concat(tree, i) ==
    IF i > Len(tree) THEN <<>>
    ELSE tree[i].text \o Concat(tree, i + 1)

Parsed == pc \in {"parsed", "written"}

\* The root element is in collapse mode (it has no ancestor).
RootCollapse == Parsed /\ get_xmlspace(SourceTree, 1) = "default"

\* No element of the document is in preserve mode.
AllCollapse ==
    /\ Parsed
    /\ \A i \in 1..Len(SourceTree) :
        SourceTree[i].type = "Element" =>
            get_xmlspace(SourceTree, i) = "default"

NoBoundarySpace(s) == s = <<>> \/ (s[1] # 32 /\ s[Len(s)] # 32)
NoDoubledSpace(s) == \A k \in 1..(Len(s) - 1) : ~(s[k] = 32 /\ s[k + 1] = 32)
OnlySpaces(s) == \A k \in 1..Len(s) : IsWhitespace(s[k]) => s[k] = 32
NoEmptyText(tree) ==
    \A i \in 1..Len(tree) : tree[i].type = "Text" => tree[i].text # <<>>

\* s with every run of whitespace made one space and none at either end.
RECURSIVE Words(_, _, _)
Words(s, i, out) ==
    IF i > Len(s) THEN out
    ELSE IF IsWhitespace(s[i])
    THEN Words(s, i + 1, out)
    ELSE IF i > 1 /\ IsWhitespace(s[i - 1]) /\ out # <<>>
    THEN Words(s, i + 1, out \o <<32, s[i]>>)
    ELSE Words(s, i + 1, Append(out, s[i]))

\* The element's content was only whitespace: it is then childless and
\* written in self-closing form.
OnlyWhitespace ==
    /\ Len(SourceTree) = 2
    /\ SourceTree[2].type = "Text"
    /\ \A k \in 1..Len(SourceTree[2].text) : IsWhitespace(SourceTree[2].text[k])

SelfClosing ==
    /\ Len(doc) = 1
    /\ pc = "written" => written = <<EmptyTag(doc[1].name, doc[1].space)>>

CollapseResult ==
    /\ NoEmptyText(doc)
    /\ OnlySpaces(Concat(doc, 1))
    /\ NoBoundarySpace(Concat(doc, 1))
    /\ NoDoubledSpace(Concat(doc, 1))
    /\ OnlyWhitespace => SelfClosing

RECURSIVE PreserveTexts(_, _)
PreserveTexts(tree, i) ==
    IF i > Len(tree) THEN <<>>
    ELSE IF /\ tree[i].type = "Text"
            /\ get_xmlspace(tree, Parent(tree, i)) = "preserve"
    THEN <<tree[i].text>> \o PreserveTexts(tree, i + 1)
    ELSE PreserveTexts(tree, i + 1)

\* s with every whitespace character replaced by a space.
Spaced(s) == [k \in 1..Len(s) |-> IF IsWhitespace(s[k]) THEN 32 ELSE s[k]]

Ancestors(tree, i) ==
    {j \in 1..(i - 1) :
        /\ tree[j].type = "Element"
        /\ tree[j].depth < tree[i].depth
        /\ \A k \in (j + 1)..(i - 1) : tree[k].depth > tree[j].depth}

\* The mode of the nearest element above node i that carries an explicit
\* xml:space attribute, collapse when there is none.
EffectiveMode(tree, i) ==
    LET explicit == {j \in Ancestors(tree, i) : tree[j].space # "none"} IN
    IF explicit = {} THEN "collapse"
    ELSE LET j == CHOOSE j \in explicit : \A k \in explicit : k <= j IN
         IF tree[j].space = "preserve" THEN "preserve" ELSE "collapse"

\* The texts of the text nodes of that mode, in document order.
RECURSIVE TextsOfMode(_, _, _)
TextsOfMode(tree, mode, i) ==
    IF i > Len(tree) THEN <<>>
    ELSE IF tree[i].type = "Text" /\ EffectiveMode(tree, i) = mode
    THEN <<tree[i].text>> \o TextsOfMode(tree, mode, i + 1)
    ELSE TextsOfMode(tree, mode, i + 1)

\* The document has text nodes of both modes.
MixedModes ==
    /\ Parsed
    /\ TextsOfMode(SourceTree, "collapse", 1) # <<>>
    /\ TextsOfMode(SourceTree, "preserve", 1) # <<>>

\* Every collapse-mode text node that was kept has been collapsed, and the
\* words of the document are those that were read.
CollapsedByOwnMode ==
    /\ \A k \in 1..Len(TextsOfMode(doc, "collapse", 1)) :
        LET t == TextsOfMode(doc, "collapse", 1)[k] IN
        t # <<>> /\ OnlySpaces(t) /\ NoDoubledSpace(t)
    /\ Words(Concat(doc, 1), 1, <<>>) = Words(Concat(SourceTree, 1), 1, <<>>)

C14_ResaveIdempotent ==
    (pc = "written" /\ previous # None) => written = previous[1]

\* A document of mixed modes with a word and a space was written, parsed
\* again and written again.
C14_Witness ==
    /\ pc = "written"
    /\ previous # None
    /\ MixedModes
    /\ \E i \in 1..Len(written) : written[i].tag = "char" /\ written[i].c = 32
    /\ \E i \in 1..Len(written) : written[i].tag = "char" /\ written[i].c = 97


(***************************************************************************)
(* Properties of remove_attribute, of the reference counts and of the      *)
(* checks of set_attribute_checked.                                        *)
(***************************************************************************)
\* The step is a call of remove_attribute on node a with the given name.
IsRemoveCall(a, name) ==
    /\ calls' = calls + 1
    /\ last'.op = "remove_attribute"
    /\ last'.node = a
    /\ last'.name = name

\* Every link attribute of every node has an entry in its target's
\* linked_nodes: the position lookup of remove_attribute would succeed.
LookupSucceeds ==
    \A a \in Nodes : \A i \in 1..Len(attributes[a]) :
        IsLinkValue(attributes[a][i].value) =>
            PositionOfNode(linked_nodes[attributes[a][i].value.node], a) # 0

\* C15: in every state reached through set_attribute_checked,
\* set_attribute, set_attribute_if_none, remove_attribute and set_id,
\* remove_attribute of an attribute holding Link(b) or FuncLink(b) finds
\* the node in b's linked_nodes (no call panics on the lookup), erases
\* exactly one entry and removes the attribute; remove_attribute of a name
\* the node does not have changes nothing.
C15_RemoveAttribute ==
    /\ [](LookupSucceeds /\ last.result # "panic")
    /\ [][\A a \in Nodes, name \in AttrNames :
            (IsRemoveCall(a, name) /\ IsLinkValue(OldValue(a, name))) =>
                LET b == OldValue(a, name).node IN
                /\ last'.result = "Ok"
                /\ Len(linked_nodes'[b]) = Len(linked_nodes[b]) - 1
                /\ \A x \in Nodes :
                    Occurrences(linked_nodes'[b], x) =
                        Occurrences(linked_nodes[b], x)
                            - (IF x = a THEN 1 ELSE 0)
                /\ \A c \in Nodes \ {b} : linked_nodes'[c] = linked_nodes[c]
                /\ ~Attributes_contains(attributes'[a], name)
                /\ Len(attributes'[a]) = Len(attributes[a]) - 1
                /\ \A c \in Nodes \ {a} : attributes'[c] = attributes[c]]_vars
    /\ [][\A a \in Nodes, name \in AttrNames :
            (IsRemoveCall(a, name)
                /\ ~Attributes_contains(attributes[a], name)) =>
                last'.result = "Ok" /\ HeapUnchanged]_vars

\* One of two links from a node to the same target was removed: the target
\* keeps one entry of the node.
C15_Witness ==
    /\ last.op = "remove_attribute"
    /\ last.result = "Ok"
    /\ IsLinkValue(last.old)
    /\ ~Attributes_contains(attributes[last.node], last.name)
    /\ Occurrences(linked_nodes[last.old.node], last.node) = 1

\* The number of attributes of node a that hold Link(b) or FuncLink(b).
LinkCount(a, b) ==
    Cardinality({i \in 1..Len(attributes[a]) :
        /\ IsLinkValue(attributes[a][i].value)
        /\ attributes[a][i].value.node = b})

\* The sum of LinkCount(a, b) over the nodes a of a set.
RECURSIVE LinkCountOver(_, _)
LinkCountOver(set, b) ==
    IF set = {} THEN 0
    ELSE LET a == CHOOSE x \in set : TRUE IN
         LinkCount(a, b) + LinkCountOver(set \ {a}, b)

\* The step is a call of set_attribute_checked or set_attribute on node a
\* that passes a link to b under a name that already holds a link to b.
IsRelinkCall(a, b) ==
    /\ calls' = calls + 1
    /\ last'.op \in {"set_attribute_checked", "set_attribute"}
    /\ last'.node = a
    /\ IsLinkValue(last'.value)
    /\ last'.value.node = b
    /\ IsLinkValue(OldValue(a, last'.name))
    /\ OldValue(a, last'.name).node = b

C17_SelfCheckById ==
    /\ [][\A a \in Nodes, b \in Nodes :
            (IsLinkCall(a, b) /\ id[b] # "" /\ id[b] = id[a]) =>
                last'.result = "ElementCrosslink" /\ HeapUnchanged]_vars
    /\ [][\A a \in Nodes, b \in Nodes :
            (IsLinkCall(a, b) /\ a # b /\ last'.result = "Ok") =>
                /\ id[b] # ""
                /\ id[b] # id[a]
                /\ PositionOfNode(Node_linked_nodes(Heap, a), b) = 0]_vars

\* A link to another node that had been given the linking node's id was
\* rejected as a crosslink.
C17_Witness ==
    /\ last.op = "set_attribute_checked"
    /\ IsLinkValue(last.value)
    /\ last.value.node # last.node
    /\ id[last.value.node] # ""
    /\ id[last.value.node] = id[last.node]
    /\ last.result = "ElementCrosslink"
    /\ ~HoldsLinkTo(last.value.node, last.node)

\* The attribute that node a holds under the name after the step.
StoredAfter(a, name) ==
    attributes'[a][PositionOfName(attributes'[a], name)]

\* C18: set_attribute_checked keeps the candidate's visibility flag only
\* on the simple path.  A non-link candidate is stored with the visible
\* flag it was given; a Link or FuncLink candidate is stored as a freshly
\* built attribute with visible = true, whatever the candidate's flag was.
C18_VisibleFlag ==
    [][\A a \in Nodes, name \in AttrNames :
        (/\ IsSetCall
         /\ last'.node = a
         /\ last'.name = name
         /\ last'.result = "Ok") =>
            /\ Attributes_contains(attributes'[a], name)
            /\ IF IsLinkValue(last'.value)
               THEN /\ StoredAfter(a, name).visible = TRUE
                    /\ StoredAfter(a, name) =
                        Attribute_new(name,
                            Value(LinkKindOf(name), last'.value.node,
                                  0, <<>>))
               ELSE /\ StoredAfter(a, name).visible = last'.visible
                    /\ StoredAfter(a, name).value = last'.value]_vars

\* A hidden link candidate was stored visible, on a node that also holds
\* a hidden non-link attribute.
C18_Witness ==
    /\ last.op = "set_attribute_checked"
    /\ last.result = "Ok"
    /\ IsLinkValue(last.value)
    /\ ~last.visible
    /\ attributes[last.node][PositionOfName(attributes[last.node],
                                            last.name)].visible
    /\ \E i \in 1..Len(attributes[last.node]) :
        /\ ~IsLinkValue(attributes[last.node][i].value)
        /\ ~attributes[last.node][i].visible

====
